---- MODULE Spec2Model ----
(***************************************************************************)
(* Model of strawberryfields/circuitdrawer.py: the Circuit class, its      *)
(* operator classification (_gate_from_operator), dispatch (parse_op),     *)
(* the three placement strategies on the circuit matrix, the spacing       *)
(* setters and the latex translation (dump_to_document).                   *)
(*                                                                         *)
(* Python strings are sequences of characters (a literal piece of a        *)
(* template is one element); lists are sequences, so the Python index i    *)
(* is the TLA+ index i + 1.                                                *)
(***************************************************************************)
EXTENDS Integers, Sequences, FiniteSets, TLC

VARIABLES circuit_matrix, document, column_spacing, row_spacing,
          last, prev, shadow, calls, operand, classified,
          accepted, placed, others, ser

\* circuit_matrix, document, column_spacing, row_spacing: the fields of a
\*   Circuit (self._circuit_matrix, ...); the matrix is a list of wires, each
\*   a list of cell labels
\* last:    the arguments of the latest call of parse_op and its exception
\* prev:    the matrix on entry to that call
\* shadow:  the matrix built by the calls that returned normally, replayed
\*          without the calls that raised
\* calls:   the number of calls made so far
\* operand, classified: the argument and the result of _gate_from_operator
\*          when it is exercised on its own (SpecClassify)
\* accepted: the number of calls of parse_op that returned normally
\* placed:  the sum of the arities of the events of those calls
\* others:  the number of calls of the spacing setters and dump_to_document
\* ser:     the calls of dump_to_document: their number, the matrix on entry
\*          to the latest one, the document it returned, the document the
\*          one before it returned, whether nothing was called between the
\*          two (quiet) and whether nothing was called since (idle)
vars == <<circuit_matrix, document, column_spacing, row_spacing,
          last, prev, shadow, calls, operand, classified,
          accepted, placed, others, ser>>

(* ---------------- bounds of the model ---------------- *)

\* largest number of wires a Circuit is constructed with
MaxWires == 3
\* largest number of events the caller submits to parse_op
MaxCalls == 2
\* number of table keys concatenated into an operator string that is classified
MaxKeys == 2
\* largest number of calls in a session of well-formed events (SpecLayout) or
\* of well-formed events, spacing setters and dumps (SpecSerialize)
MaxSteps == 3
\* the spacings set are 1 .. MaxSpacing
MaxSpacing == 2

None == "None"

\* an optional int field: Nothing is None, Some(v) the int v
Nothing == <<>>
Some(v) == <<v>>

(* ---------------- Python built-ins ---------------- *)

\* Python's len(range(n)) items as 0-based indices
Range(n) == 0 .. (n - 1)

\* the decimal digits of a natural number, str(n) for n >= 0
RECURSIVE Digits(_)
Digits(n) ==
    LET d == <<"0", "1", "2", "3", "4", "5", "6", "7", "8", "9">>[(n % 10) + 1]
    IN  IF n < 10 THEN <<d>> ELSE Digits(n \div 10) \o <<d>>

\* str(n) as str.format renders an int argument
IntToStr(n) == IF n < 0 THEN <<"-">> \o Digits(0 - n) ELSE Digits(n)

\* Python's  k in s  for strings: k occurs in s as a contiguous substring
In(k, s) ==
    \E i \in 0 .. (Len(s) - Len(k)) : SubSeq(s, i + 1, i + Len(k)) = k

\* s.split(sep)[0] for a one-character separator
RECURSIVE SplitFirst(_, _)
SplitFirst(s, sep) ==
    IF s = <<>> \/ Head(s) = sep THEN <<>>
    ELSE <<Head(s)>> \o SplitFirst(Tail(s), sep)

(* ---------------- qcircuit_strings ---------------- *)

PIPE == "|"
QUANTUM_WIRE_format(n) == <<"qw[">> \o IntToStr(n) \o <<"]">>
CONTROL_format(n) == <<"ctrl{">> \o IntToStr(n) \o <<"}">>
TARGET == <<"targ">>
PAULI_X_COMP == <<"gate{X}">>
PAULI_Z_COMP == <<"gate{Z}">>
D_COMP == <<"gate{D}">>
S_COMP == <<"gate{S}">>
R_COMP == <<"gate{R}">>
P_COMP == <<"gate{P}">>
V_COMP == <<"gate{V}">>
K_COMP == <<"gate{K}">>
FOURIER_COMP == <<"gate{F}">>
BS_COMP == <<"gate{BS}">>
INIT_DOCUMENT == <<"<preamble>">>
DOCUMENT_END == <<"<document-end>">>
CIRCUIT_BODY_START == <<"<body-start>">>
CIRCUIT_BODY_TERMINATOR == <<"<body-end>">>
WIRE_TERMINATOR == <<"<wire-end>">>
WIRE_OPERATION_format(operation) == <<"& ">> \o operation
COLUMN_SPACING_format(n) == <<"@C=">> \o IntToStr(n)
ROW_SPACING_format(n) == <<"@R=">> \o IntToStr(n)

(* ---------------- the gate tables of __init__ ---------------- *)

gate == <<"g", "a", "t", "e">>

single_mode_gates ==
    << [key |-> <<"X">> \o gate, method |-> "_x"],
       [key |-> <<"Z">> \o gate, method |-> "_z"],
       [key |-> <<"D">> \o gate, method |-> "_d"],
       [key |-> <<"S">> \o gate, method |-> "_s"],
       [key |-> <<"R">> \o gate, method |-> "_r"],
       [key |-> <<"P">> \o gate, method |-> "_p"],
       [key |-> <<"V">> \o gate, method |-> "_v"],
       [key |-> <<"K">> \o gate, method |-> "_k"],
       [key |-> <<"F", "o", "u", "r", "i", "e", "r", "G", "a", "t", "e">>,
        method |-> "_fourier"] >>

two_mode_gates ==
    << [key |-> <<"C", "X">> \o gate, method |-> "_cx"],
       [key |-> <<"C", "Z">> \o gate, method |-> "_cz"],
       [key |-> <<"C", "K">> \o gate, method |-> "_ck"],
       [key |-> <<"B", "S">> \o gate, method |-> "_bs"],
       [key |-> <<"S", "2">> \o gate, method |-> "_s2"] >>

(* ---------------- _gate_from_operator ---------------- *)

\* the loop is left at the first key that occurs in the operator string
RECURSIVE ScanTable_first_match(_, _, _, _)
ScanTable_first_match(table, i, operator, method) ==
    IF i > Len(table) THEN method
    ELSE IF In(table[i].key, operator) THEN table[i].method
    ELSE ScanTable_first_match(table, i + 1, operator, method)

\* one of the two for-loops: every key of the table, in table order, that
\* occurs in the operator string assigns its method (there is no break)
RECURSIVE ScanTable(_, _, _, _)
ScanTable(table, i, operator, method) ==
    IF i > Len(table) THEN method
    ELSE ScanTable(table, i + 1, operator,
                   IF In(table[i].key, operator) THEN table[i].method
                   ELSE method)

\* the single-wire table consulted first
_gate_from_operator_single_first(op) ==
    LET operator == SplitFirst(op, PIPE)
        two == ScanTable(two_mode_gates, 1, operator, None)
        one == ScanTable(single_mode_gates, 1, operator, None)
    IN  IF one # None THEN [method |-> one, mode |-> 1]
        ELSE IF two # None THEN [method |-> two, mode |-> 2]
        ELSE [method |-> None, mode |-> None]

_gate_from_operator(op) ==
    LET operator == SplitFirst(op, PIPE)
        two == ScanTable(two_mode_gates, 1, operator, None)
        one == ScanTable(single_mode_gates, 1, operator, None)
    IN  IF two # None THEN [method |-> two, mode |-> 2]
        ELSE IF one # None THEN [method |-> one, mode |-> 1]
        ELSE [method |-> None, mode |-> None]

(* ---------------- helpers of the grid layout ---------------- *)

\* wire_ops[-1]
Last(s) == s[Len(s)]

\* wire_ops[-1] = v
SetLast(s, v) == [s EXCEPT ![Len(s)] = v]

_is_empty(op) == op = QUANTUM_WIRE_format(1)

_on_empty_column(matrix) ==
    \A i \in 1 .. Len(matrix) : _is_empty(Last(matrix[i]))

\* the new cell is put in front of each wire
_add_column_in_front(matrix) ==
    [i \in 1 .. Len(matrix) |-> <<QUANTUM_WIRE_format(1)>> \o matrix[i]]

_add_column(matrix) ==
    [i \in 1 .. Len(matrix) |-> Append(matrix[i], QUANTUM_WIRE_format(1))]

(* ---------------- operation types ---------------- *)

\* the wires after the gate's wire are not padded
_single_mode_gate_prev_only(matrix, wire, circuit_op) ==
    LET wire_ops == matrix[wire + 1]
    IN  IF _is_empty(Last(wire_ops))
        THEN [matrix EXCEPT ![wire + 1] = SetLast(wire_ops, circuit_op)]
        ELSE [i \in 1 .. Len(matrix) |->
                 IF i = wire + 1 THEN Append(matrix[i], circuit_op)
                 ELSE IF i < wire + 1
                 THEN Append(matrix[i], QUANTUM_WIRE_format(1))
                 ELSE matrix[i]]

\* the whole rightmost column is tested instead of the gate's own cell
_single_mode_gate_column_test(matrix, wire, circuit_op) ==
    LET wire_ops == matrix[wire + 1]
    IN  IF _on_empty_column(matrix)
        THEN [matrix EXCEPT ![wire + 1] = SetLast(wire_ops, circuit_op)]
        ELSE [i \in 1 .. Len(matrix) |->
                 IF i = wire + 1 THEN Append(matrix[i], circuit_op)
                 ELSE Append(matrix[i], QUANTUM_WIRE_format(1))]

\* the rightmost cell is overwritten without the test
_single_mode_gate_overwrite(matrix, wire, circuit_op) ==
    [matrix EXCEPT ![wire + 1] = SetLast(@, circuit_op)]

_single_mode_gate(matrix, wire, circuit_op) ==
    LET wire_ops == matrix[wire + 1]
    IN  IF _is_empty(Last(wire_ops))
        THEN [matrix EXCEPT ![wire + 1] = SetLast(wire_ops, circuit_op)]
        ELSE [i \in 1 .. Len(matrix) |->
                 IF i = wire + 1 THEN Append(matrix[i], circuit_op)
                 ELSE Append(matrix[i], QUANTUM_WIRE_format(1))]

\* the loop  for wire in wires: wire_ops[-1] = circuit_op
RECURSIVE WriteWires(_, _, _)
WriteWires(matrix, circuit_op, wires) ==
    IF wires = <<>> THEN matrix
    ELSE WriteWires([matrix EXCEPT ![Head(wires) + 1] = SetLast(@, circuit_op)],
                    circuit_op, Tail(wires))

\* only the rightmost cells of the gate's own wires are tested
_multi_mode_gate_own_wires(matrix, circuit_op, wires) ==
    LET m == IF \E k \in 1 .. Len(wires) : ~ _is_empty(Last(matrix[wires[k] + 1]))
             THEN _add_column(matrix) ELSE matrix
    IN  WriteWires(m, circuit_op, wires)

\* the label is written into the rightmost column as it is
_multi_mode_gate_no_column(matrix, circuit_op, wires) ==
    WriteWires(matrix, circuit_op, wires)

\* a column is added whatever the rightmost column holds
_multi_mode_gate_always_column(matrix, circuit_op, wires) ==
    WriteWires(_add_column(matrix), circuit_op, wires)

_multi_mode_gate(matrix, circuit_op, wires) ==
    LET m == IF ~ _on_empty_column(matrix) THEN _add_column(matrix) ELSE matrix
    IN  WriteWires(m, circuit_op, wires)

\* the whole rightmost column is tested instead of the two cells
_controlled_mode_gate_column_test(matrix, source_wire, target_wire, circuit_op) ==
    LET distance == target_wire - source_wire
    IN  IF _on_empty_column(matrix)
        THEN LET m == [matrix EXCEPT
                          ![source_wire + 1] = SetLast(@, CONTROL_format(distance))]
             IN  [m EXCEPT ![target_wire + 1] = SetLast(@, circuit_op)]
        ELSE [i \in 1 .. Len(matrix) |->
                 IF i - 1 = source_wire
                 THEN Append(matrix[i], CONTROL_format(distance))
                 ELSE IF i - 1 = target_wire
                 THEN Append(matrix[i], circuit_op)
                 ELSE Append(matrix[i], QUANTUM_WIRE_format(1))]

\* the new cell of the source wire is left an empty wire
_controlled_mode_gate_no_marker(matrix, source_wire, target_wire, circuit_op) ==
    LET source_ops == matrix[source_wire + 1]
        target_ops == matrix[target_wire + 1]
        distance == target_wire - source_wire
    IN  IF _is_empty(Last(source_ops)) /\ _is_empty(Last(target_ops))
        THEN LET m == [matrix EXCEPT
                          ![source_wire + 1] = SetLast(@, CONTROL_format(distance))]
             IN  [m EXCEPT ![target_wire + 1] = SetLast(@, circuit_op)]
        ELSE [i \in 1 .. Len(matrix) |->
                 IF i - 1 = target_wire
                 THEN Append(matrix[i], circuit_op)
                 ELSE Append(matrix[i], QUANTUM_WIRE_format(1))]

\* the distance is taken from target to source
_controlled_mode_gate_reversed(matrix, source_wire, target_wire, circuit_op) ==
    LET source_ops == matrix[source_wire + 1]
        target_ops == matrix[target_wire + 1]
        distance == source_wire - target_wire
    IN  IF _is_empty(Last(source_ops)) /\ _is_empty(Last(target_ops))
        THEN LET m == [matrix EXCEPT
                          ![source_wire + 1] = SetLast(@, CONTROL_format(distance))]
             IN  [m EXCEPT ![target_wire + 1] = SetLast(@, circuit_op)]
        ELSE [i \in 1 .. Len(matrix) |->
                 IF i - 1 = source_wire
                 THEN Append(matrix[i], CONTROL_format(distance))
                 ELSE IF i - 1 = target_wire
                 THEN Append(matrix[i], circuit_op)
                 ELSE Append(matrix[i], QUANTUM_WIRE_format(1))]

_controlled_mode_gate(matrix, source_wire, target_wire, circuit_op) ==
    LET source_ops == matrix[source_wire + 1]
        target_ops == matrix[target_wire + 1]
        distance == target_wire - source_wire
    IN  IF _is_empty(Last(source_ops)) /\ _is_empty(Last(target_ops))
        THEN LET m == [matrix EXCEPT
                          ![source_wire + 1] = SetLast(@, CONTROL_format(distance))]
             IN  [m EXCEPT ![target_wire + 1] = SetLast(@, circuit_op)]
        ELSE [i \in 1 .. Len(matrix) |->
                 IF i - 1 = source_wire
                 THEN Append(matrix[i], CONTROL_format(distance))
                 ELSE IF i - 1 = target_wire
                 THEN Append(matrix[i], circuit_op)
                 ELSE Append(matrix[i], QUANTUM_WIRE_format(1))]

(* ---------------- the gate methods ---------------- *)

_x(matrix, wire) == _single_mode_gate(matrix, wire, PAULI_X_COMP)
_z(matrix, wire) == _single_mode_gate(matrix, wire, PAULI_Z_COMP)
_s(matrix, wire) == _single_mode_gate(matrix, wire, S_COMP)
_d(matrix, wire) == _single_mode_gate(matrix, wire, D_COMP)
_r(matrix, wire) == _single_mode_gate(matrix, wire, R_COMP)
_p(matrix, wire) == _single_mode_gate(matrix, wire, P_COMP)
_v(matrix, wire) == _single_mode_gate(matrix, wire, V_COMP)
_k(matrix, wire) == _single_mode_gate(matrix, wire, K_COMP)
_fourier(matrix, wire) == _single_mode_gate(matrix, wire, FOURIER_COMP)

_cx(matrix, source_wire, target_wire) ==
    _controlled_mode_gate(matrix, source_wire, target_wire, TARGET)
_cz(matrix, source_wire, target_wire) ==
    _controlled_mode_gate(matrix, source_wire, target_wire, PAULI_Z_COMP)
_ck(matrix, source_wire, target_wire) ==
    _controlled_mode_gate(matrix, source_wire, target_wire, K_COMP)

_bs(matrix, first_wire, second_wire) ==
    _multi_mode_gate(matrix, BS_COMP, <<first_wire, second_wire>>)
_s2(matrix, first_wire, second_wire) ==
    _multi_mode_gate(matrix, S_COMP, <<first_wire, second_wire>>)

\* method(*wires), for a bound method of the tables
Call(method, matrix, wires) ==
    CASE method = "_x" -> _x(matrix, wires[1])
      [] method = "_z" -> _z(matrix, wires[1])
      [] method = "_d" -> _d(matrix, wires[1])
      [] method = "_s" -> _s(matrix, wires[1])
      [] method = "_r" -> _r(matrix, wires[1])
      [] method = "_p" -> _p(matrix, wires[1])
      [] method = "_v" -> _v(matrix, wires[1])
      [] method = "_k" -> _k(matrix, wires[1])
      [] method = "_fourier" -> _fourier(matrix, wires[1])
      [] method = "_cx" -> _cx(matrix, wires[1], wires[2])
      [] method = "_cz" -> _cz(matrix, wires[1], wires[2])
      [] method = "_ck" -> _ck(matrix, wires[1], wires[2])
      [] method = "_bs" -> _bs(matrix, wires[1], wires[2])
      [] method = "_s2" -> _s2(matrix, wires[1], wires[2])

(* ---------------- parse_op ---------------- *)

UnsupportedGateException(args) ==
    [type |-> "UnsupportedGateException", args |-> args]
ModeMismatchException(args) ==
    [type |-> "ModeMismatchException", args |-> args]
\* no exception: the call returned
NoException == [type |-> None, args |-> <<>>]

\* a column is prepared before the wire count is compared
parse_op_late_check(matrix, op, reg) ==
    LET g == _gate_from_operator(op)
        wires == reg
    IN  IF g.method = None
        THEN [matrix |-> matrix,
              exc |-> UnsupportedGateException(
                         <<"Unsupported operation ">> \o op
                         \o <<" not printable by circuit builder!">>)]
        ELSE IF g.mode = Len(wires)
        THEN [matrix |-> Call(g.method, matrix, wires), exc |-> NoException]
        ELSE [matrix |-> _add_column(matrix),
              exc |-> ModeMismatchException(
                         IntToStr(g.mode) \o <<" mode gate applied to ">>
                         \o IntToStr(Len(wires)) \o <<" wires!">>)]

\* surplus wires are let through
parse_op_at_least(matrix, op, reg) ==
    LET g == _gate_from_operator(op)
        wires == reg
    IN  IF g.method = None
        THEN [matrix |-> matrix,
              exc |-> UnsupportedGateException(
                         <<"Unsupported operation ">> \o op
                         \o <<" not printable by circuit builder!">>)]
        ELSE IF g.mode <= Len(wires)
        THEN [matrix |-> Call(g.method, matrix, wires), exc |-> NoException]
        ELSE [matrix |-> matrix,
              exc |-> ModeMismatchException(
                         IntToStr(g.mode) \o <<" mode gate applied to ">>
                         \o IntToStr(Len(wires)) \o <<" wires!">>)]

\* the two arguments of the message are exchanged
parse_op_swapped_format(matrix, op, reg) ==
    LET g == _gate_from_operator(op)
        wires == reg
    IN  IF g.method = None
        THEN [matrix |-> matrix,
              exc |-> UnsupportedGateException(
                         <<"Unsupported operation ">> \o op
                         \o <<" not printable by circuit builder!">>)]
        ELSE IF g.mode = Len(wires)
        THEN [matrix |-> Call(g.method, matrix, wires), exc |-> NoException]
        ELSE [matrix |-> matrix,
              exc |-> ModeMismatchException(
                         IntToStr(Len(wires)) \o <<" mode gate applied to ">>
                         \o IntToStr(g.mode) \o <<" wires!">>)]

\* op is str(op), reg the list of op.reg[i].ind; the result is the matrix
\* after the call and the exception raised (NoException when the call returns)
parse_op(matrix, op, reg) ==
    LET g == _gate_from_operator(op)
        wires == reg
    IN  IF g.method = None
        THEN [matrix |-> matrix,
              exc |-> UnsupportedGateException(
                         <<"Unsupported operation ">> \o op
                         \o <<" not printable by circuit builder!">>)]
        ELSE IF g.mode = Len(wires)
        THEN [matrix |-> Call(g.method, matrix, wires), exc |-> NoException]
        ELSE [matrix |-> matrix,
              exc |-> ModeMismatchException(
                         IntToStr(g.mode) \o <<" mode gate applied to ">>
                         \o IntToStr(Len(wires)) \o <<" wires!">>)]

(* ---------------- latex translation ---------------- *)

_pad_with_spaces(string) == <<" ">> \o string \o <<" ">>

\* the headers are appended to the document of the previous dump
_init_document_append(doc) == doc \o INIT_DOCUMENT

_init_document(doc) == INIT_DOCUMENT
_end_document(doc) == doc \o DOCUMENT_END
_begin_circuit(doc) == doc \o CIRCUIT_BODY_START
_end_circuit(doc) == doc \o CIRCUIT_BODY_TERMINATOR
_end_wire(doc) == doc \o WIRE_TERMINATOR

\* the row directive is written before the column directive
_apply_spacing_row_first(doc, col, row) ==
    LET d == IF row # Nothing
             THEN doc \o _pad_with_spaces(ROW_SPACING_format(row[1]))
             ELSE doc
    IN  IF col # Nothing
        THEN d \o _pad_with_spaces(COLUMN_SPACING_format(col[1]))
        ELSE d

_apply_spacing(doc, col, row) ==
    LET d == IF col # Nothing
             THEN doc \o _pad_with_spaces(COLUMN_SPACING_format(col[1]))
             ELSE doc
    IN  IF row # Nothing
        THEN d \o _pad_with_spaces(ROW_SPACING_format(row[1]))
        ELSE d

_write_operation_to_document(doc, operation) ==
    doc \o _pad_with_spaces(WIRE_OPERATION_format(operation))

\* the inner loop  for wire_op in wire_ops[1], from the j-th cell on
RECURSIVE WriteOperations(_, _, _)
WriteOperations(doc, wire_ops, j) ==
    IF j > Len(wire_ops) THEN doc
    ELSE WriteOperations(_write_operation_to_document(doc, wire_ops[j]),
                         wire_ops, j + 1)

\* the cells of column c, from wire w on
RECURSIVE WriteColumnCells(_, _, _, _)
WriteColumnCells(doc, matrix, c, w) ==
    IF w > Len(matrix) THEN doc
    ELSE WriteColumnCells(_write_operation_to_document(doc, matrix[w][c]),
                          matrix, c, w + 1)

\* the matrix is traversed column by column
RECURSIVE WriteWireRows_by_column(_, _, _)
WriteWireRows_by_column(doc, matrix, i) ==
    IF i > Len(matrix[1]) THEN doc
    ELSE WriteWireRows_by_column(_end_wire(WriteColumnCells(doc, matrix, i, 1)),
                                 matrix, i + 1)

\* the outer loop  for wire_ops in enumerate(matrix), from the i-th wire on
RECURSIVE WriteWireRows(_, _, _)
WriteWireRows(doc, matrix, i) ==
    IF i > Len(matrix) THEN doc
    ELSE WriteWireRows(_end_wire(WriteOperations(doc, matrix[i], 1)),
                       matrix, i + 1)

\* the document dump_to_document leaves in self._document and returns
dump_to_document(doc, matrix, col, row) ==
    LET d1 == _init_document(doc)
        d2 == _apply_spacing(d1, col, row)
        d3 == _begin_circuit(d2)
        d4 == WriteWireRows(d3, matrix, 1)
        d5 == _end_circuit(d4)
    IN  _end_document(d5)

(* ---------------- the events submitted by the caller ---------------- *)

\* the tail of str(op): the parameters, the pipe and the registers
Applied == <<"(", "1", ")", " ", "|", " ", "q">>

XgateOp == <<"X">> \o gate \o Applied
CXgateOp == <<"C", "X">> \o gate \o Applied
BSgateOp == <<"B", "S">> \o gate \o Applied
MeasureFockOp == <<"M", "e", "a", "s", "u", "r", "e", "F", "o", "c", "k">> \o Applied

\* str(op) of the events submitted: a single-wire gate, a controlled gate,
\* a two-wire symmetric gate and an operation of neither table
Operators == { XgateOp, CXgateOp, BSgateOp, MeasureFockOp }

\* the arity of the operator strings submitted, 0 for the one of no table
Arity(op) ==
    CASE op = XgateOp -> 1
      [] op = CXgateOp -> 2
      [] op = BSgateOp -> 2
      [] op = MeasureFockOp -> 0

\* lists of distinct wire indices of a circuit with W wires: one wire, two
\* wires in either order, and the first three wires
Registers(W) ==
    { <<a>> : a \in Range(W) }
    \cup { r \in Range(W) \X Range(W) : r[1] # r[2] }
    \cup { r \in { <<0, 1, 2>> } : W >= 3 }

(* ---------------- state machine ---------------- *)

NoEvent == [op |-> <<>>, reg |-> <<>>, exc |-> NoException]

\* dump_to_document has not been called
NoDump == [dumps |-> 0, before |-> <<>>, returned |-> <<>>, earlier |-> <<>>,
           quiet |-> FALSE, idle |-> FALSE]

\* one wire too many is built
Construct_extra_wire(wires) ==
    /\ document = <<>>
    /\ circuit_matrix = [wire \in 1 .. (wires + 1) |-> <<QUANTUM_WIRE_format(1)>>]
    /\ column_spacing = Nothing
    /\ row_spacing = Nothing

\* Circuit(wires)
Construct(wires) ==
    /\ document = <<>>
    /\ circuit_matrix = [wire \in 1 .. wires |-> <<QUANTUM_WIRE_format(1)>>]
    /\ column_spacing = Nothing
    /\ row_spacing = Nothing

Init ==
    /\ \E wires \in 1 .. MaxWires : Construct(wires)
    /\ last = NoEvent
    /\ prev = circuit_matrix
    /\ shadow = circuit_matrix
    /\ calls = 0
    /\ operand = <<>>
    /\ classified = [method |-> None, mode |-> None]
    /\ accepted = 0
    /\ placed = 0
    /\ others = 0
    /\ ser = NoDump

\* one call of parse_op; last and prev record the call and the matrix before
\* it, shadow is the matrix built from the calls that returned normally
ParseOpOn(op, reg) ==
    LET r == parse_op(circuit_matrix, op, reg)
    IN  /\ calls' = calls + 1
        /\ circuit_matrix' = r.matrix
        /\ last' = [op |-> op, reg |-> reg, exc |-> r.exc]
        /\ prev' = circuit_matrix
        /\ shadow' = IF r.exc = NoException
                     THEN parse_op(shadow, op, reg).matrix
                     ELSE shadow
        /\ accepted' = IF r.exc = NoException THEN accepted + 1 ELSE accepted
        /\ placed' = IF r.exc = NoException THEN placed + Arity(op) ELSE placed
        /\ ser' = [ser EXCEPT !.idle = FALSE]
        /\ UNCHANGED <<document, column_spacing, row_spacing,
                       operand, classified, others>>

\* the caller submits any event: of any kind, on any list of distinct wires
ParseOp ==
    /\ calls < MaxCalls
    /\ \E op \in Operators, reg \in Registers(Len(circuit_matrix)) :
           ParseOpOn(op, reg)

Next == ParseOp

Spec == Init /\ [][Next]_vars

(* ---------------- classification as a pure function ---------------- *)

\* the pieces operator strings are built from: every key of the two tables,
\* the pipe and a character of no key
Pieces ==
    { single_mode_gates[i].key : i \in 1 .. Len(single_mode_gates) }
    \cup { two_mode_gates[i].key : i \in 1 .. Len(two_mode_gates) }
    \cup { <<PIPE>>, <<"q">> }

\* the concatenations of at most n pieces
RECURSIVE Concats(_)
Concats(n) ==
    IF n = 0 THEN { <<>> }
    ELSE LET c == Concats(n - 1)
         IN  c \cup { a \o b : a \in c, b \in Pieces }

InitClassify ==
    /\ Construct(1)
    /\ last = NoEvent
    /\ prev = circuit_matrix
    /\ shadow = circuit_matrix
    /\ calls = 0
    /\ operand \in Concats(MaxKeys)
    /\ classified = [method |-> None, mode |-> None]
    /\ accepted = 0
    /\ placed = 0
    /\ others = 0
    /\ ser = NoDump

\* one call of _gate_from_operator on the operand
Classify ==
    /\ calls = 0
    /\ calls' = 1
    /\ classified' = _gate_from_operator(operand)
    /\ UNCHANGED <<circuit_matrix, document, column_spacing, row_spacing,
                   last, prev, shadow, operand, accepted, placed, others, ser>>

NextClassify == Classify

SpecClassify == InitClassify /\ [][NextClassify]_vars

(* ---------------- sessions of well-formed events ---------------- *)

SingleEvents(n) == { [op |-> XgateOp, reg |-> <<a>>] : a \in Range(n) }
ControlledEvents(n) ==
    { [op |-> CXgateOp, reg |-> r] :
          r \in { q \in Range(n) \X Range(n) : q[1] # q[2] } }
MultiEvents(n) ==
    { [op |-> BSgateOp, reg |-> r] :
          r \in { q \in Range(n) \X Range(n) : q[1] < q[2] } }

\* the caller submits a well-formed event of any of the three strategies
PlaceGate ==
    /\ calls < MaxSteps
    /\ \E e \in SingleEvents(Len(circuit_matrix))
                \cup ControlledEvents(Len(circuit_matrix))
                \cup MultiEvents(Len(circuit_matrix)) :
           ParseOpOn(e.op, e.reg)

NextLayout == PlaceGate

SpecLayout == Init /\ [][NextLayout]_vars

(* ---------------- sessions with spacing and serialization ---------------- *)

\* the caller submits a well-formed single-wire or controlled event
AddGate ==
    /\ calls + others < MaxSteps
    /\ \E e \in SingleEvents(Len(circuit_matrix))
                \cup ControlledEvents(Len(circuit_matrix)) :
           ParseOpOn(e.op, e.reg)

\* _set_column_spacing(spacing)
SetColumnSpacing ==
    /\ calls + others < MaxSteps
    /\ \E spacing \in 1 .. MaxSpacing : column_spacing' = Some(spacing)
    /\ others' = others + 1
    /\ ser' = [ser EXCEPT !.idle = FALSE]
    /\ UNCHANGED <<circuit_matrix, document, row_spacing, last, prev, shadow,
                   calls, operand, classified, accepted, placed>>

\* _set_row_spacing(spacing)
SetRowSpacing ==
    /\ calls + others < MaxSteps
    /\ \E spacing \in 1 .. MaxSpacing : row_spacing' = Some(spacing)
    /\ others' = others + 1
    /\ ser' = [ser EXCEPT !.idle = FALSE]
    /\ UNCHANGED <<circuit_matrix, document, column_spacing, last, prev,
                   shadow, calls, operand, classified, accepted, placed>>

\* dump_to_document()
DumpToDocument ==
    /\ calls + others < MaxSteps
    /\ document' = dump_to_document(document, circuit_matrix,
                                    column_spacing, row_spacing)
    /\ others' = others + 1
    /\ ser' = [dumps |-> ser.dumps + 1, before |-> circuit_matrix,
               returned |-> document', earlier |-> ser.returned,
               quiet |-> ser.idle, idle |-> TRUE]
    /\ UNCHANGED <<circuit_matrix, column_spacing, row_spacing, last, prev,
                   shadow, calls, operand, classified, accepted, placed>>

NextSerialize ==
    \/ AddGate
    \/ SetColumnSpacing
    \/ SetRowSpacing
    \/ DumpToDocument

SpecSerialize == Init /\ [][NextSerialize]_vars

(* ======================================================================= *)
(* Properties                                                              *)
(* ======================================================================= *)

W == Len(circuit_matrix)
Wires == 1 .. W

\* the last call of parse_op returned normally / raised
Accepted == calls > 0 /\ last.exc = NoException
Rejected == calls > 0 /\ last.exc # NoException

\* the strategy of the last event, read off the operator string submitted
SingleEvent == Accepted /\ last.op = XgateOp
MultiEvent == Accepted /\ last.op = BSgateOp
ControlledEvent == Accepted /\ last.op = CXgateOp

EmptyWire == <<"qw[", "1", "]">>
Occupied(matrix, i) == Last(matrix[i]) # EmptyWire

\* every wire of the matrix is its wire in prev (Same), or its wire in prev
\* followed by one new cell (Grown)
Same(i) == Len(circuit_matrix[i]) = Len(prev[i])
Grown(i) ==
    /\ Len(circuit_matrix[i]) = Len(prev[i]) + 1
    /\ SubSeq(circuit_matrix[i], 1, Len(prev[i])) = prev[i]

\* C1: all wire sequences of the matrix have the same length, in the fresh
\* grid and after every event
C1_Rectangular ==
    \A i \in Wires : Len(circuit_matrix[i]) = Len(circuit_matrix[1])

\* a three-wire grid that an accepted event has just widened
C1_Witness ==
    /\ Accepted
    /\ W >= 3
    /\ Len(circuit_matrix[1]) = Len(prev[1]) + 1
    /\ \A i \in Wires : Len(circuit_matrix[i]) = Len(circuit_matrix[1])

\* C2: a rejected event leaves the matrix as it was before the call, and the
\* matrix is always the one the accepted events alone would have built
C2_ErrorLeavesGrid ==
    /\ Rejected => circuit_matrix = prev
    /\ circuit_matrix = shadow

\* an event rejected for its wire count on a grid that already holds a gate
C2_Witness ==
    /\ Rejected
    /\ last.exc.type = "ModeMismatchException"
    /\ \E i \in Wires : Occupied(circuit_matrix, i)
    /\ circuit_matrix = prev

\* C3: a single-wire gate on a wire whose rightmost cell is empty replaces
\* that cell by the gate label and changes no other cell and no length
C3_SingleReuse ==
    (SingleEvent /\ ~ Occupied(prev, last.reg[1] + 1)) =>
        \A i \in Wires :
            /\ Same(i)
            /\ \A j \in 1 .. Len(prev[i]) :
                   circuit_matrix[i][j] =
                       IF i = last.reg[1] + 1 /\ j = Len(prev[i])
                       THEN <<"gate{X}">>
                       ELSE prev[i][j]

\* the column is reused although another wire's rightmost cell is occupied
C3_Witness ==
    /\ SingleEvent
    /\ ~ Occupied(prev, last.reg[1] + 1)
    /\ \E i \in Wires : i # last.reg[1] + 1 /\ Occupied(prev, i)
    /\ Last(circuit_matrix[last.reg[1] + 1]) = <<"gate{X}">>
    /\ \A i \in Wires : Same(i)

\* C4: a single-wire gate on a wire whose rightmost cell is occupied gives
\* every wire exactly one new cell, the gate label on that wire and the
\* empty-wire label on every other wire, and keeps the earlier cells
C4_SingleOverflow ==
    (SingleEvent /\ Occupied(prev, last.reg[1] + 1)) =>
        \A i \in Wires :
            /\ Grown(i)
            /\ Last(circuit_matrix[i]) =
                   IF i = last.reg[1] + 1 THEN <<"gate{X}">> ELSE EmptyWire

\* a grid of several wires grown by a gate on an occupied wire
C4_Witness ==
    /\ SingleEvent
    /\ Occupied(prev, last.reg[1] + 1)
    /\ W >= 2
    /\ \A i \in Wires : Len(circuit_matrix[i]) = Len(prev[i]) + 1

\* C5: a two-wire symmetric gate appends an all-empty column exactly when
\* some rightmost cell is occupied before the event, whichever wire that is;
\* afterwards the gate's wires end in the gate label and, when a column was
\* added, every other wire ends in the empty-wire label
C5_MultiPlacement ==
    MultiEvent =>
        /\ IF \E i \in Wires : Occupied(prev, i)
           THEN \A i \in Wires :
                    /\ Grown(i)
                    /\ (i - 1 # last.reg[1] /\ i - 1 # last.reg[2]) =>
                           Last(circuit_matrix[i]) = EmptyWire
           ELSE \A i \in Wires : Same(i)
        /\ Last(circuit_matrix[last.reg[1] + 1]) = <<"gate{BS}">>
        /\ Last(circuit_matrix[last.reg[2] + 1]) = <<"gate{BS}">>

\* a column is added although both wires of the gate ended in an empty cell
C5_Witness ==
    /\ MultiEvent
    /\ ~ Occupied(prev, last.reg[1] + 1)
    /\ ~ Occupied(prev, last.reg[2] + 1)
    /\ \E i \in Wires : Occupied(prev, i)
    /\ \A i \in Wires : Len(circuit_matrix[i]) = Len(prev[i]) + 1

\* the wires of a controlled event, as indices of the matrix
Source == last.reg[1] + 1
Target == last.reg[2] + 1

\* the decimal text of a control marker's argument, read back as an integer
DigitValue(c) ==
    CHOOSE v \in 0 .. 9 :
        c = <<"0", "1", "2", "3", "4", "5", "6", "7", "8", "9">>[v + 1]
RECURSIVE NatValue(_)
NatValue(txt) ==
    IF Len(txt) = 1 THEN DigitValue(txt[1])
    ELSE 10 * NatValue(SubSeq(txt, 1, Len(txt) - 1)) + DigitValue(txt[Len(txt)])
IntValue(txt) == IF Head(txt) = "-" THEN 0 - NatValue(Tail(txt)) ELSE NatValue(txt)

\* the cell is a control marker
IsControl(cell) ==
    /\ Len(cell) >= 3
    /\ Head(cell) = "ctrl{"
    /\ Last(cell) = "}"
\* the distance a control marker carries
Distance(cell) == IntValue(SubSeq(cell, 2, Len(cell) - 1))

\* C6: a controlled gate reuses the column exactly when the rightmost cells
\* of source and target are both empty, whatever the other wires hold: then
\* no length changes and only those two cells change; otherwise every wire
\* gets one new cell, the control marker on source, the gate label on target
\* and the empty-wire label elsewhere
C6_ControlledPlacement ==
    ControlledEvent =>
        IF ~ Occupied(prev, Source) /\ ~ Occupied(prev, Target)
        THEN \A i \in Wires :
                 /\ Same(i)
                 /\ \A j \in 1 .. Len(prev[i]) :
                        (circuit_matrix[i][j] # prev[i][j]) =>
                            (i \in {Source, Target} /\ j = Len(prev[i]))
        ELSE \A i \in Wires :
                 /\ Grown(i)
                 /\ IF i = Source THEN IsControl(Last(circuit_matrix[i]))
                    ELSE IF i = Target THEN Last(circuit_matrix[i]) = <<"targ">>
                    ELSE Last(circuit_matrix[i]) = EmptyWire

\* the column is reused across an occupied wire lying between source and target
C6_Witness ==
    /\ ControlledEvent
    /\ ~ Occupied(prev, Source)
    /\ ~ Occupied(prev, Target)
    /\ \E i \in Wires : Source < i /\ i < Target /\ Occupied(prev, i)
    /\ \A i \in Wires : Same(i)
    /\ IsControl(Last(circuit_matrix[Source]))

\* C7: after a controlled event on (source, target) the rightmost cell of
\* source is a control marker carrying target - source, signed, and the
\* rightmost cell of target, in the same column, is the gate label
C7_ControlledDistance ==
    ControlledEvent =>
        /\ IsControl(Last(circuit_matrix[Source]))
        /\ Distance(Last(circuit_matrix[Source])) = last.reg[2] - last.reg[1]
        /\ Last(circuit_matrix[Target]) = <<"targ">>
        /\ Len(circuit_matrix[Source]) = Len(circuit_matrix[Target])

\* source 2 and target 0 on a new column: the marker carries -2
C7_Witness ==
    /\ ControlledEvent
    /\ last.reg = <<2, 0>>
    /\ Len(circuit_matrix[1]) = Len(prev[1]) + 1
    /\ Last(circuit_matrix[3]) = <<"ctrl{", "-", "2", "}">>
    /\ Last(circuit_matrix[1]) = <<"targ">>

\* C8: an event of no table raises UnsupportedGateException whatever its
\* wire count; an event of a table whose wire count is not the arity raises
\* ModeMismatchException; an event returns normally, its handler applied,
\* exactly when the kind is found and the wire count is the arity
C8_ArityEnforcement ==
    calls > 0 =>
        /\ Arity(last.op) = 0 <=> last.exc.type = "UnsupportedGateException"
        /\ (Arity(last.op) # 0 /\ Len(last.reg) # Arity(last.op))
               <=> last.exc.type = "ModeMismatchException"
        /\ (Arity(last.op) # 0 /\ Len(last.reg) = Arity(last.op)) <=> Accepted
        /\ Accepted => \E i \in Wires : circuit_matrix[i] # prev[i]

\* a two-wire gate naming one wire is rejected: 2 expected, 1 given
C8_Witness ==
    /\ calls > 0
    /\ last.op = CXgateOp
    /\ Len(last.reg) = 1
    /\ last.exc.type = "ModeMismatchException"
    /\ Head(last.exc.args) = "2"

\* the gate-kind string of an event: str(op) up to the pipe
GateKind(op) == SplitFirst(op, "|")

TwoKeys == { two_mode_gates[i].key : i \in 1 .. Len(two_mode_gates) }
SingleKeys == { single_mode_gates[i].key : i \in 1 .. Len(single_mode_gates) }
TwoMethods == { "_cx", "_cz", "_ck", "_bs", "_s2" }
SingleMethods == { "_x", "_z", "_d", "_s", "_r", "_p", "_v", "_k", "_fourier" }

\* C10: a gate-kind string holding a two-wire key (and so also when it holds
\* a single-wire key as well) is classified with a two-wire handler and
\* arity 2; a single-wire handler is returned only when no two-wire key occurs
C10_TablePrecedence ==
    calls = 1 =>
        /\ (\E k \in TwoKeys : In(k, GateKind(operand))) =>
               /\ classified.method \in TwoMethods
               /\ classified.mode = 2
        /\ classified.method \in SingleMethods =>
               /\ classified.mode = 1
               /\ \A k \in TwoKeys : ~ In(k, GateKind(operand))

\* CXgate, which holds the single-wire key Xgate, is given to _cx with arity 2
C10_Witness ==
    /\ calls = 1
    /\ operand = <<"C", "X", "g", "a", "t", "e">>
    /\ \E k \in SingleKeys : In(k, GateKind(operand))
    /\ classified = [method |-> "_cx", mode |-> 2]

(* ---------------- serialization ---------------- *)

Columns == Len(circuit_matrix[1])

\* dump_to_document has just returned: nothing was called since
JustDumped == ser.dumps > 0 /\ ser.idle

\* the number of elements of a string that are the given piece
RECURSIVE Count(_, _)
Count(piece, text) ==
    IF text = <<>> THEN 0
    ELSE (IF Head(text) = piece THEN 1 ELSE 0) + Count(piece, Tail(text))

\* the index of the first element of a string that is the given piece
Position(piece, text) ==
    CHOOSE p \in 1 .. Len(text) :
        text[p] = piece /\ \A q \in 1 .. (p - 1) : text[q] # piece

\* the cell of wire i and column j in the wire-operation wrapping
Wrapped(i, j) == <<" ", "& ">> \o circuit_matrix[i][j] \o <<" ">>

\* wire i from column j on, then its terminator
RECURSIVE RowText(_, _)
RowText(i, j) ==
    IF j > Columns THEN <<"<wire-end>">>
    ELSE Wrapped(i, j) \o RowText(i, j + 1)

\* the wires from wire i on, one after the other
RECURSIVE BodyText(_)
BodyText(i) == IF i > W THEN <<>> ELSE RowText(i, 1) \o BodyText(i + 1)

\* C11: the document dump_to_document returns is the preamble, the spacing
\* directives if any, the body-start marker, then wire by wire in index
\* order all cells of the wire in column order, each wrapped, followed by
\* one terminator, then the body-end and the document-end marker; it holds
\* W*C wrapped cells and W terminators
C11_TraversalOrder ==
    JustDumped =>
        LET start == Position("<body-start>", document)
        IN  /\ Head(document) = "<preamble>"
            /\ Count("<preamble>", document) = 1
            /\ Count("<body-start>", document) = 1
            /\ \A q \in 2 .. (start - 1) :
                   document[q] \notin {"& ", "<wire-end>", "<body-end>",
                                       "<document-end>"}
            /\ SubSeq(document, start + 1, Len(document)) =
                   BodyText(1) \o <<"<body-end>", "<document-end>">>
            /\ Count("& ", document) = W * Columns
            /\ Count("<wire-end>", document) = W
            /\ (W = 1 /\ Columns = 1 /\ column_spacing = <<>>
                      /\ row_spacing = <<>>) =>
                   document = <<"<preamble>", "<body-start>", " ", "& ">>
                              \o circuit_matrix[1][1]
                              \o <<" ", "<wire-end>", "<body-end>",
                                   "<document-end>">>

\* a grid of two wires and two columns with a gate in the second column of
\* wire 0 has been serialized: wire 0's two cells, terminator, wire 1's two
C11_Witness ==
    /\ JustDumped
    /\ W = 2
    /\ Columns = 2
    /\ circuit_matrix[1][2] = <<"gate{X}">>
    /\ circuit_matrix[2][2] = EmptyWire
    /\ Count("& ", document) = 4
    /\ Count("<wire-end>", document) = 2

\* a spacing directive with its value, surrounded by single spaces
Directive(name, spacing) == <<" ", name, <<"1", "2", "3">>[spacing[1]], " ">>

\* the directive starts at element p of the document
DirectiveAt(name, spacing, p) ==
    /\ p >= 1
    /\ p + 3 <= Len(document)
    /\ SubSeq(document, p, p + 3) = Directive(name, spacing)

\* C12: the document returned holds the column directive exactly when the
\* column spacing is set and the row directive exactly when the row spacing
\* is set, each once, after the preamble and before the body-start marker,
\* the column directive first; and a setter changes neither the matrix nor
\* the document: the document is always the one the latest dump returned
C12_SpacingDirectives ==
    /\ document = ser.returned
    /\ circuit_matrix = shadow
    /\ JustDumped =>
           LET start == Position("<body-start>", document)
               c == IF column_spacing = <<>> THEN 0 ELSE 4
               r == IF row_spacing = <<>> THEN 0 ELSE 4
           IN  /\ Count("@C=", document) = c \div 4
               /\ Count("@R=", document) = r \div 4
               /\ start = 2 + c + r
               /\ c = 4 => DirectiveAt("@C=", column_spacing, 2)
               /\ r = 4 => DirectiveAt("@R=", row_spacing, 2 + c)

\* column spacing 1 and row spacing 2 were set, in either order, and the
\* document returned carries both directives, the column one first
C12_Witness ==
    /\ JustDumped
    /\ column_spacing = <<1>>
    /\ row_spacing = <<2>>
    /\ SubSeq(document, 1, 10) =
           <<"<preamble>", " ", "@C=", "1", " ", " ", "@R=", "2", " ",
             "<body-start>">>

(* ---------------- columns ---------------- *)

\* C13: an event leaves every cell left of the rightmost column it found as
\* it was, on every wire, and shortens no wire: columns are added at the
\* right end only
C13_AppendOnly ==
    calls > 0 =>
        \A i \in Wires :
            /\ Len(circuit_matrix[i]) >= Len(prev[i])
            /\ \A c \in 1 .. (Len(prev[i]) - 1) :
                   circuit_matrix[i][c] = prev[i][c]

\* a two-wire symmetric gate has added a third column to a grid whose first
\* column holds a gate
C13_Witness ==
    /\ MultiEvent
    /\ Len(prev[1]) = 2
    /\ Columns = 3
    /\ \E i \in Wires : prev[i][1] # EmptyWire /\ circuit_matrix[i][1] = prev[i][1]

\* C14: a freshly constructed engine has one sequence per wire, each of
\* the single empty-wire label, no spacing set and an empty document
C14_InitialState ==
    (calls = 0 /\ others = 0) =>
        /\ W \in 1 .. MaxWires
        /\ \A i \in Wires : circuit_matrix[i] = <<EmptyWire>>
        /\ column_spacing = <<>>
        /\ row_spacing = <<>>
        /\ document = <<>>

\* a three-wire engine on which nothing has been called
C14_Witness ==
    /\ calls = 0
    /\ others = 0
    /\ W = 3
    /\ circuit_matrix = <<<<EmptyWire>>, <<EmptyWire>>, <<EmptyWire>>>>

Matches(table, kind) ==
    { i \in 1 .. Len(table) : In(table[i].key, kind) }
First(set) == CHOOSE i \in set : \A k \in set : i <= k
Latest(set) == CHOOSE i \in set : \A k \in set : i >= k

\* C16 as stated: the handler returned is the one of the first key, in table
\* order, that occurs in the gate-kind string (two-wire table first)
C16_Original ==
    calls = 1 =>
        LET two == Matches(two_mode_gates, GateKind(operand))
            one == Matches(single_mode_gates, GateKind(operand))
        IN  IF two # {}
            THEN classified = [method |-> two_mode_gates[First(two)].method,
                               mode |-> 2]
            ELSE one # {} =>
                 classified = [method |-> single_mode_gates[First(one)].method,
                               mode |-> 1]

\* C16 amended: the two-wire table is checked first and a key found there
\* gives arity 2 without the single-wire table being consulted; of several
\* keys of the same table that occur in the string, the last in table order
\* gives the handler
C16_LastMatch ==
    calls = 1 =>
        LET two == Matches(two_mode_gates, GateKind(operand))
            one == Matches(single_mode_gates, GateKind(operand))
        IN  IF two # {}
            THEN classified = [method |-> two_mode_gates[Latest(two)].method,
                               mode |-> 2]
            ELSE IF one # {}
            THEN classified = [method |-> single_mode_gates[Latest(one)].method,
                               mode |-> 1]
            ELSE classified.method = "None"

\* CXgateBSgate holds the first and the fourth key of the two-wire table
\* and is given to _bs
C16_Witness ==
    /\ calls = 1
    /\ operand = <<"C", "X", "g", "a", "t", "e", "B", "S", "g", "a", "t", "e">>
    /\ Matches(two_mode_gates, GateKind(operand)) = {1, 4}
    /\ classified = [method |-> "_bs", mode |-> 2]

(* ---------------- gates placed ---------------- *)

\* the cells of a matrix that hold a label other than the empty wire
NonEmptyCells(matrix) ==
    { c \in (1 .. Len(matrix)) \X (1 .. Len(matrix[1])) :
          matrix[c[1]][c[2]] # EmptyWire }

\* C17: a cell that holds a gate box, a control marker or a target marker
\* before an event holds the same label after it: whatever an event rewrites
\* was an empty wire, and everything else it writes is a new cell
C17_NoOverwrite ==
    calls > 0 =>
        \A i \in Wires : \A j \in 1 .. Len(prev[i]) :
            /\ prev[i][j] # EmptyWire =>
                   (j <= Len(circuit_matrix[i]) /\ circuit_matrix[i][j] = prev[i][j])
            /\ (j <= Len(circuit_matrix[i]) /\ circuit_matrix[i][j] # prev[i][j]) =>
                   prev[i][j] = EmptyWire

\* a two-wire symmetric gate on a wire whose rightmost cell holds a gate:
\* the gate is kept and the label goes to a new cell
C17_Witness ==
    /\ MultiEvent
    /\ Occupied(prev, last.reg[1] + 1)
    /\ Len(circuit_matrix[1]) = Len(prev[1]) + 1
    /\ circuit_matrix[last.reg[1] + 1][Len(prev[1])] = Last(prev[last.reg[1] + 1])
    /\ Last(circuit_matrix[last.reg[1] + 1]) = <<"gate{BS}">>

\* C18: the number of non-empty cells of the grid is the sum of the arities
\* of the accepted events, and a rejected event adds none
C18_GateCount ==
    /\ Cardinality(NonEmptyCells(circuit_matrix)) = placed
    /\ Rejected =>
           Cardinality(NonEmptyCells(circuit_matrix))
               = Cardinality(NonEmptyCells(prev))
    /\ Accepted =>
           Cardinality(NonEmptyCells(circuit_matrix))
               = Cardinality(NonEmptyCells(prev)) + Len(last.reg)

\* a single-wire and a two-wire event were accepted: three non-empty cells
C18_Witness ==
    /\ accepted = 2
    /\ placed = 3
    /\ Cardinality(NonEmptyCells(circuit_matrix)) = 3

\* C19: once an event was accepted every column, the rightmost included,
\* holds a non-empty cell; an event adds no column or one; the number of
\* columns is at most the number of accepted events, and 1 on a fresh grid
C19_NoEmptyColumn ==
    /\ accepted >= 1 =>
           \A c \in 1 .. Columns : \E i \in Wires : circuit_matrix[i][c] # EmptyWire
    /\ accepted = 0 => Columns = 1
    /\ calls > 0 => Columns - Len(prev[1]) \in {0, 1}
    /\ Columns <= (IF accepted >= 1 THEN accepted ELSE 1)

\* three events gave three columns, and the rightmost column still has an
\* empty cell next to its gate
C19_Witness ==
    /\ accepted = 3
    /\ Columns = 3
    /\ \E i \in Wires : ~ Occupied(circuit_matrix, i)
    /\ \E i \in Wires : Occupied(circuit_matrix, i)

====
